---------------------------- MODULE Spec2Model ----------------------------
(***************************************************************************)
(* Model of optics_calc_app.py: a Streamlit form whose script is re-run    *)
(* after every widget change.  One run reads the widgets of the selected   *)
(* mode, converts them to SI (to_si), applies the mode's formula and       *)
(* reports st.success / st.error messages (or dies with an exception).     *)
(*                                                                         *)
(* Numbers.  A Python float is modelled by its exact value: a rational     *)
(* n/d times 10^e in a canonical form, plus the IEEE-754 special values    *)
(* (zero, +/-inf, nan) and the range of a double: a product or quotient    *)
(* beyond the largest double becomes inf, one below the smallest           *)
(* subnormal becomes zero, and Python raises ZeroDivisionError for a       *)
(* float division by zero and OverflowError for an overflowing "**".       *)
(* Rounding of the last binary digit is not modelled there (the grating    *)
(* functions are modelled in binary64 as well, below).  np.pi is kept as a *)
(* symbol: a value carries a power p of pi, and pi is 355/113 where an     *)
(* order of magnitude or a printed digit is needed.                        *)
(***************************************************************************)
EXTENDS Integers, Sequences, FiniteSets, TLC

Abs(i) == IF i < 0 THEN -i ELSE i

RECURSIVE Gcd(_, _)
Gcd(a, b) == IF b = 0 THEN a ELSE Gcd(b, a % b)

RECURSIVE Pow10(_)
Pow10(k) == IF k <= 0 THEN 1 ELSE 10 * Pow10(k - 1)

(* A value: k is "fin" (n/d * 10^e * pi^p, n # 0), "zero", "inf" (n is the *)
(* sign), "nan", "int" (a Python int, n its value) or the name of the      *)
(* exception that the computation of the value raised.                     *)
V(k, n, d, e) == [k |-> k, n |-> n, d |-> d, e |-> e, p |-> 0]
Zero == V("zero", 0, 1, 0)
NaN == V("nan", 0, 1, 0)
Inf(s) == V("inf", s, 1, 0)
Raise(name) == V(name, 0, 1, 0)
PyInt(i) == V("int", i, 1, 0)

IsExc(x) == x.k \notin {"fin", "zero", "inf", "nan", "int"}

(* The canonical form of n/d * 10^e: lowest terms, d coprime to 10, n not  *)
(* divisible by 10.                                                        *)
RECURSIVE Canon(_, _, _)
Canon(n, d, e) ==
    IF n = 0 THEN Zero
    ELSE LET g == Gcd(Abs(n), d) IN
         IF g > 1 THEN Canon(n \div g, d \div g, e)
         ELSE IF d % 2 = 0 THEN Canon(n * 5, d \div 2, e - 1)
         ELSE IF d % 5 = 0 THEN Canon(n * 2, d \div 5, e - 1)
         ELSE IF n % 10 = 0 THEN Canon(n \div 10, d, e + 1)
         ELSE V("fin", n, d, e)

(* floor(log10(n/d)) for n >= d > 0, and for 0 < n < d.                    *)
RECURSIVE FLup(_, _)
FLup(n, d) == IF n \div 10 >= d THEN 1 + FLup(n \div 10, d) ELSE 0

RECURSIVE FLdown(_, _)
FLdown(n, d) == IF n >= d THEN 0 ELSE FLdown(n, (d + 9) \div 10) - 1

(* n/d * 10^e * pi^p in canonical form.                                    *)
CanonP(n, d, e, p) ==
    IF n = 0 THEN Zero ELSE [Canon(n, d, e) EXCEPT !.p = p]

(* pi^p as a fraction PiNum(p) / PiDen(p), with pi = 355/113.              *)
RECURSIVE IntPow(_, _)
IntPow(b, k) == IF k <= 0 THEN 1 ELSE b * IntPow(b, k - 1)
PiNum(p) == IF p >= 0 THEN IntPow(355, p) ELSE IntPow(113, -p)
PiDen(p) == IF p >= 0 THEN IntPow(113, p) ELSE IntPow(355, -p)

(* floor(log10(|x|)) of a finite non-zero x = n/d * 10^e * pi^p; MagOf is   *)
(* floor(log10(a/b)).                                                      *)
MagOf(a, b) == IF a >= b THEN FLup(a, b) ELSE FLdown(a, b)
Mag(x) == x.e + MagOf(Abs(x.n) * PiNum(x.p), x.d * PiDen(x.p))

Sign(x) == IF x.k \in {"fin", "inf", "int"}
           THEN (IF x.n < 0 THEN -1 ELSE IF x.n > 0 THEN 1 ELSE 0)
           ELSE 0

(* A Python int used in float arithmetic (the order m in m * lam).         *)
ToFloat(x) == IF x.k = "int" THEN Canon(x.n, 1, 0) ELSE x

(* The range of a Python float (IEEE-754 double), by decimal order of      *)
(* magnitude: the largest double is 1.8e308, the smallest subnormal 5e-324.*)
MaxExp10 == 308
MinExp10 == -324

(* The float a finite exact result of magnitude mag becomes: inf beyond    *)
(* the range, zero below it.                                               *)
Clip(x, mag) ==
    IF mag > MaxExp10 THEN Inf(Sign(x))
    ELSE IF mag < MinExp10 THEN Zero
    ELSE x

Rng(x) == IF x.k # "fin" THEN x ELSE Clip(x, Mag(x))

FNeg(x) == IF x.k \in {"fin", "inf", "int"} THEN [x EXCEPT !.n = -x.n] ELSE x

FAbs(x) == IF x.k \in {"fin", "inf", "int"} THEN [x EXCEPT !.n = Abs(x.n)] ELSE x

(* x * y * 10^e with the factors of ten of x * y moved into e.             *)
RECURSIVE Tens(_, _, _)
Tens(x, y, e) ==
    IF x % 5 = 0 /\ y % 2 = 0 THEN Tens(x \div 5, y \div 2, e + 1)
    ELSE IF x % 2 = 0 /\ y % 5 = 0 THEN Tens(x \div 2, y \div 5, e + 1)
    ELSE <<x, y, e>>

(* The product of two finite values, common factors (g1 of a.n and b.d, g2 *)
(* of b.n and a.d) and factors of ten (t) taken out first.                 *)
MulTens(a, b, g1, g2, t) ==
    Rng(CanonP(t[1] * t[2], (a.d \div g2) * (b.d \div g1), t[3], a.p + b.p))
MulFin(a, b, g1, g2) ==
    MulTens(a, b, g1, g2, Tens(a.n \div g1, b.n \div g2, a.e + b.e))

(* a * b on floats: never raises; inf * 0 is nan.                          *)
FMul(a, b) ==
    IF IsExc(a) THEN a
    ELSE IF IsExc(b) THEN b
    ELSE IF a.k = "nan" \/ b.k = "nan" THEN NaN
    ELSE IF a.k = "inf" \/ b.k = "inf"
         THEN (IF a.k = "zero" \/ b.k = "zero" THEN NaN
               ELSE Inf(Sign(a) * Sign(b)))
    ELSE IF a.k = "zero" \/ b.k = "zero" THEN Zero
    ELSE MulFin(a, b, Gcd(Abs(a.n), b.d), Gcd(Abs(b.n), a.d))

(* The quotient of two finite values, common factors (g1 of the            *)
(* numerators, g2 of the denominators) taken out first.                    *)
DivFin(a, b, g1, g2) ==
    Rng(CanonP(Sign(b) * (a.n \div g1) * (b.d \div g2),
               (a.d \div g2) * (Abs(b.n) \div g1), a.e - b.e, a.p - b.p))

(* a / b on Python floats: ZeroDivisionError when b is zero.               *)
FDiv(a, b) ==
    IF IsExc(a) THEN a
    ELSE IF IsExc(b) THEN b
    ELSE IF b.k = "zero" THEN Raise("ZeroDivisionError")
    ELSE IF a.k = "nan" \/ b.k = "nan" THEN NaN
    ELSE IF a.k = "inf"
         THEN (IF b.k = "inf" THEN NaN ELSE Inf(Sign(a) * Sign(b)))
    ELSE IF b.k = "inf" \/ a.k = "zero" THEN Zero
    ELSE DivFin(a, b, Gcd(Abs(a.n), Abs(b.n)), Gcd(a.d, b.d))

(* a ** 2 on a Python float: OverflowError beyond the range.               *)
SqFin(x) == IF Mag(x) > MaxExp10 THEN Raise("OverflowError") ELSE Rng(x)
FSq(a) ==
    IF IsExc(a) \/ a.k \in {"nan", "zero"} THEN a
    ELSE IF a.k = "inf" THEN Inf(1)
    ELSE SqFin(CanonP(a.n * a.n, a.d * a.d, 2 * a.e, 2 * a.p))

(* A sum absorbs a term that is SumDigits orders of magnitude below the    *)
(* other (a double holds 16 digits; the model's sums hold 8, and no sum of *)
(* the script is used beyond them: it is compared with 1, -1 or 1e-15, or  *)
(* its arcsine is printed with 6 digits).  A double of IntDigits digits or *)
(* more is an integer.                                                     *)
SumDigits == 8
IntDigits == 16

(* The sum of two finite values free of pi (the sums of the script are),   *)
(* of magnitudes ma and mb, on the common exponent lo.                     *)
AddAt(a, b, lo) ==
    CASE a.p = 0 /\ b.p = 0 ->
        Rng(Canon(a.n * b.d * Pow10(a.e - lo) + b.n * a.d * Pow10(b.e - lo),
                  a.d * b.d, lo))
AddFin(a, b, ma, mb) ==
    IF ma - mb >= SumDigits THEN a
    ELSE IF mb - ma >= SumDigits THEN b
    ELSE AddAt(a, b, IF a.e < b.e THEN a.e ELSE b.e)

(* a + b on floats: never raises; inf - inf is nan.                        *)
FAdd(a, b) ==
    IF IsExc(a) THEN a
    ELSE IF IsExc(b) THEN b
    ELSE IF a.k = "nan" \/ b.k = "nan" THEN NaN
    ELSE IF a.k = "inf"
         THEN (IF b.k = "inf" /\ b.n # a.n THEN NaN ELSE a)
    ELSE IF b.k = "inf" \/ a.k = "zero" THEN b
    ELSE IF b.k = "zero" THEN a
    ELSE AddFin(a, b, Mag(a), Mag(b))

FSub(a, b) == FAdd(a, FNeg(b))

(* Comparisons of floats: every comparison with nan is false.  LtFin       *)
(* compares two finite values of the same sign s and of magnitudes ma, mb. *)
LtFin(a, b, s, ma, mb) ==
    IF ma # mb THEN (IF s > 0 THEN ma < mb ELSE ma > mb)
    ELSE Sign(FSub(a, b)) < 0
LtSigned(a, b, sa, sb) ==
    IF sa # sb THEN sa < sb
    ELSE IF sa = 0 \/ a = b THEN FALSE
    ELSE IF a.k = "inf" THEN sa < 0
    ELSE IF b.k = "inf" THEN sa > 0
    ELSE LtFin(a, b, sa, Mag(a), Mag(b))
Lt(a, b) == a.k # "nan" /\ b.k # "nan" /\ LtSigned(a, b, Sign(a), Sign(b))

Gt(a, b) == Lt(b, a)

Le(a, b) == a.k # "nan" /\ b.k # "nan" /\ (a = b \/ Lt(a, b))

(* Literals of the source.                                                 *)
Num(n) == Canon(n, 1, 0)
Dec(n, e) == Canon(n, 1, e)
One == Num(1)
Two == Num(2)

(* np.pi, and the constants of the formulas.                               *)
Pi == CanonP(1, 1, 0, 1)
C0 == Num(299792458)

(* floor(N * 10^steps / D) by long division, for 0 <= N, 0 < D.            *)
RECURSIVE LongDiv(_, _, _, _)
LongDiv(q, r, D, steps) ==
    IF steps = 0 THEN <<q, r>>
    ELSE LongDiv(q * 10 + (r * 10) \div D, (r * 10) % D, D, steps - 1)

(* x rounded to p significant digits, ties to even: what the formats       *)
(* ".4g" and ".6g" print.  The digits are floor(N * 10^steps / D), qr the  *)
(* quotient and remainder of that division, k1 the exponent of the last    *)
(* digit kept.                                                             *)
RoundQR(x, k1, qr, D) ==
    Canon(Sign(x) * (IF 2 * qr[2] > D \/ (2 * qr[2] = D /\ qr[1] % 2 = 1)
                     THEN qr[1] + 1 ELSE qr[1]), 1, k1)
RoundDiv(x, k1, N, D, steps) ==
    RoundQR(x, k1, LongDiv(N \div D, N % D, D, steps), D)
RoundShift(x, k1, s) ==
    RoundDiv(x, k1, Abs(x.n) * PiNum(x.p),
             x.d * PiDen(x.p) * (IF s >= 0 THEN 1 ELSE Pow10(-s)),
             IF s >= 0 THEN s ELSE 0)
RoundSig(x, p) ==
    IF x.k # "fin" THEN x ELSE RoundShift(x, Mag(x) - p + 1, x.e - Mag(x) + p - 1)

(* str() of a number: what f"{x}" prints for the values format_eng does    *)
(* not scale.                                                              *)
Repr(x) ==
    IF x.k = "int" /\ x.n = 0 THEN "0"
    ELSE IF x.k = "zero" THEN "0.0"
    ELSE IF x.k = "nan" THEN "nan"
    ELSE IF x.k = "inf" THEN (IF x.n < 0 THEN "-inf" ELSE "inf")
    ELSE "digits"

(* A printed quantity: the number printed (num), its text when it is       *)
(* printed unformatted, the SI prefix and the unit; exc names the          *)
(* exception raised while building it.                                     *)
Str(num, text, prefix, unit) ==
    [num |-> num, text |-> text, prefix |-> prefix, unit |-> unit, exc |-> ""]
StrExc(name) ==
    [num |-> NaN, text |-> "", prefix |-> "", unit |-> "", exc |-> name]

(* ---------------- to_si ------------------------------------------------ *)
scale ==
    [u \in {"W", "mW", "kW", "Hz", "kHz", "MHz", "GHz", "J", "mJ", "uJ", "nJ",
            "s", "ms", "us", "ns", "ps", "fs", "m", "mm", "um", "nm",
            "deg", "rad", "cm2", "mm2", "um2", "m2", "lines/mm", "lines/m"} |->
        CASE u \in {"W", "Hz", "J", "s", "m", "rad", "m2", "lines/m"} -> One
          [] u \in {"mW", "mJ", "ms", "mm"} -> Dec(1, -3)
          [] u \in {"kW", "kHz", "lines/mm"} -> Dec(1, 3)
          [] u = "MHz" -> Dec(1, 6)
          [] u = "GHz" -> Dec(1, 9)
          [] u \in {"uJ", "us", "um", "mm2"} -> Dec(1, -6)
          [] u \in {"nJ", "ns", "nm"} -> Dec(1, -9)
          [] u \in {"ps", "um2"} -> Dec(1, -12)
          [] u = "fs" -> Dec(1, -15)
          [] u = "cm2" -> Dec(1, -4)
          [] u = "deg" -> FDiv(Pi, Num(180))]

(* scale[unit] of a dict: KeyError for a key that is not in it.            *)
(* to_si_lenient is the faulty variant scale.get(unit, 1.0).               *)
to_si_lenient(value, unit) ==
    FMul(value, IF unit \in DOMAIN scale THEN scale[unit] ELSE One)
to_si(value, unit) ==
    IF unit \in DOMAIN scale THEN FMul(value, scale[unit]) ELSE Raise("KeyError")

(* ---------------- format_eng ------------------------------------------- *)
prefixes ==
    [e \in {-15, -12, -9, -6, -3, 0, 3, 6, 9, 12} |->
        CASE e = -15 -> "f" [] e = -12 -> "p" [] e = -9 -> "n" [] e = -6 -> "u"
          [] e = -3 -> "m" [] e = 0 -> "" [] e = 3 -> "k" [] e = 6 -> "M"
          [] e = 9 -> "G" [] e = 12 -> "T"]

Min(a, b) == IF a < b THEN a ELSE b
Max(a, b) == IF a > b THEN a ELSE b

(* line 28: x == 0 or np.isnan(x) or np.isinf(x), the values returned      *)
(* unscaled.  IsSpecialZeroOnly is the faulty variant that tests x == 0    *)
(* alone.                                                                  *)
IsSpecialZeroOnly(x) == (x.k = "int" /\ x.n = 0) \/ x.k = "zero"
IsSpecial(x) == (x.k = "int" /\ x.n = 0) \/ x.k \in {"zero", "nan", "inf"}

(* line 30: int(np.floor(np.log10(abs(x)) / 3) * 3).  np.log10 is -inf for *)
(* 0, inf for inf and nan for nan, and int() raises OverflowError for an   *)
(* infinity and ValueError for nan.                                        *)
RawExp(x) ==
    IF (x.k = "int" /\ x.n = 0) \/ x.k \in {"zero", "inf"} THEN Raise("OverflowError")
    ELSE IF x.k = "nan" THEN Raise("ValueError")
    ELSE PyInt(3 * (Mag(x) \div 3))

(* line 31: max(min(exp, 12), -15).  ClampExpAbove is the faulty variant   *)
(* min(exp, 12).                                                           *)
ClampExpAbove(exp) == Min(exp, 12)
ClampExp(exp) == Max(Min(exp, 12), -15)

(* line 32: x / (10 ** exp).                                               *)
Scaled(x, exp) == FDiv(x, Dec(1, exp))

(* lines 33-34: the prefix of exp (KeyError for an exponent that has none) *)
(* and the scaled number with 4 digits.                                    *)
WithPrefix(x, unit, exp) ==
    IF exp \notin DOMAIN prefixes THEN StrExc("KeyError")
    ELSE Str(RoundSig(Scaled(x, exp), 4), "", prefixes[exp], unit)

(* lines 30-34, raw being the value of line 30.                            *)
WithExp(x, unit, raw) ==
    IF IsExc(raw) THEN StrExc(raw.k) ELSE WithPrefix(x, unit, ClampExp(raw.n))

format_eng(x, unit) ==
    IF IsExc(x) THEN StrExc(x.k)
    ELSE IF IsSpecial(x) THEN Str(x, Repr(x), "", unit)
    ELSE WithExp(x, unit, RawExp(x))

(* f"{x:.6g}" and f"{x:.4g}" with a fixed unit.                            *)
Fmt(x, p, unit) ==
    IF IsExc(x) THEN StrExc(x.k)
    ELSE IF x.k \in {"nan", "inf", "zero"} THEN Str(x, "", "", unit)
    ELSE Str(RoundSig(x, p), "", "", unit)

(* ---------------- the widgets ------------------------------------------ *)
(* A widget declaration: what Streamlit derives the widget's identity      *)
(* from.  Labels are transliterated to ASCII, one string per source label. *)
NoVal == V("none", 0, 1, 0)

NumW(label, min, value, step, fmt, key) ==
    [type |-> "number_input", label |-> label, min |-> min, value |-> value,
     step |-> step, fmt |-> fmt, opts |-> <<>>, index |-> 0, key |-> key]

SelW(label, opts, index, key) ==
    [type |-> "selectbox", label |-> label, min |-> NoVal, value |-> NoVal,
     step |-> "", fmt |-> "", opts |-> opts, index |-> index, key |-> key]

RadW(label, opts) ==
    [type |-> "radio", label |-> label, min |-> NoVal, value |-> NoVal,
     step |-> "", fmt |-> "", opts |-> opts, index |-> 0, key |-> ""]

LengthUnits == <<"nm", "um", "mm", "m">>
WaistUnits == <<"um", "mm", "m", "nm">>
TimeUnits == <<"s", "ms", "us", "ns", "ps", "fs">>
AngleUnits == <<"deg", "rad">>
DensityUnits == <<"lines/mm", "lines/m">>
Geometries == <<"single", "double">>

Widgets ==
    {"pe_P", "pe_Punit", "pe_f", "pe_funit",
     "fs_def", "fs_lam", "fs_lamu", "fs_NA",
     "rr_input", "rr_lam", "rr_lamu", "rr_w0", "rr_w0u", "rr_NA",
     "pp_E", "pp_Eu", "pp_t", "pp_tu", "pp_shape",
     "ac_dir", "ac_deg", "ac_rad",
     "gr_calc", "gr_lam", "gr_lamu", "gr_ti", "gr_tiu", "gr_m",
     "gr_N", "gr_Nu", "gr_out", "gr_tm", "gr_tmu", "gr_outN", "gr_N2", "gr_N2u",
     "pd_P", "pd_Pu", "pd_model", "pd_r", "pd_ru", "pd_out", "pd_w", "pd_wu", "pd_out2",
     "od_dir", "od_n", "od_t", "od_tu", "od_geom1", "od_L", "od_Lu", "od_geom2",
     "dv_lam", "dv_lamu", "dv_w0", "dv_w0u", "dv_M2", "dv_out"}

Decl ==
    [x \in Widgets |->
      CASE x = "pe_P" -> NumW("P_avg", Zero, Num(1), "0.1", "", "")
        [] x = "pe_Punit" -> SelW("power unit", <<"W", "mW", "kW">>, 0, "")
        [] x = "pe_f" -> NumW("f_rep", Zero, Num(100), "10.0", "", "")
        [] x = "pe_funit" -> SelW("frequency unit", <<"Hz", "kHz", "MHz", "GHz">>, 1, "")
        [] x = "fs_def" -> RadW("spot definition", <<"airy", "gauss">>)
        [] x = "fs_lam" -> NumW("wavelength", Zero, Num(1030), "10.0", "", "")
        [] x = "fs_lamu" -> SelW("wavelength unit", LengthUnits, 0, "")
        [] x = "fs_NA" -> NumW("NA", Zero, Dec(1, -1), "0.01", "%.3f", "")
        [] x = "rr_input" -> RadW("input mode", <<"direct", "fromNA">>)
        [] x = "rr_lam" -> NumW("wavelength", Zero, Num(1030), "10.0", "", "lam_fd")
        [] x = "rr_lamu" -> SelW("wavelength unit", LengthUnits, 0, "lamu_fd")
        [] x = "rr_w0" -> NumW("w0", Zero, Num(5), "0.5", "", "")
        [] x = "rr_w0u" -> SelW("w0 unit", WaistUnits, 0, "")
        [] x = "rr_NA" -> NumW("NA", Zero, Dec(1, -1), "0.01", "%.3f", "")
        [] x = "pp_E" -> NumW("E", Zero, Num(10), "1.0", "", "")
        [] x = "pp_Eu" -> SelW("energy unit", <<"J", "mJ", "uJ", "nJ">>, 2, "")
        [] x = "pp_t" -> NumW("tau", Zero, Num(300), "10.0", "", "")
        [] x = "pp_tu" -> SelW("tau unit", TimeUnits, 4, "")
        [] x = "pp_shape" -> RadW("pulse shape", <<"rect", "gaussFWHM">>)
        [] x = "ac_dir" -> RadW("direction", <<"deg2rad", "rad2deg">>)
        [] x = "ac_deg" -> NumW("angle (deg)", NoVal, Num(30), "1.0", "", "")
        [] x = "ac_rad" -> NumW("angle (rad)", NoVal, FDiv(Pi, Num(6)), "0.1", "%.6f", "")
        [] x = "gr_calc" -> RadW("solve for", <<"theta_m", "density", "max_order">>)
        [] x = "gr_lam" -> NumW("wavelength", Zero, Num(532), "1.0", "", "")
        [] x = "gr_lamu" -> SelW("lambda unit", LengthUnits, 0, "")
        [] x = "gr_ti" -> NumW("theta_i", NoVal, Zero, "1.0", "", "")
        [] x = "gr_tiu" -> SelW("theta_i unit", AngleUnits, 0, "")
        [] x = "gr_m" -> NumW("order m", NoVal, PyInt(1), "1", "", "")
        [] x = "gr_N" -> NumW("line density N", Zero, Num(1200), "10.0", "", "")
        [] x = "gr_Nu" -> SelW("N unit", DensityUnits, 0, "")
        [] x = "gr_out" -> SelW("output angle unit", AngleUnits, 0, "")
        [] x = "gr_tm" -> NumW("theta_m", NoVal, Num(30), "1.0", "", "")
        [] x = "gr_tmu" -> SelW("theta_m unit", AngleUnits, 0, "")
        [] x = "gr_outN" -> SelW("output density unit", DensityUnits, 0, "")
        [] x = "gr_N2" -> NumW("line density N", Zero, Num(1200), "10.0", "", "")
        [] x = "gr_N2u" -> SelW("N unit", DensityUnits, 0, "Nmax_unit")
        [] x = "pd_P" -> NumW("P_avg", Zero, Num(1), "0.1", "", "")
        [] x = "pd_Pu" -> SelW("power unit", <<"W", "mW", "kW">>, 0, "pd_punit")
        [] x = "pd_model" -> RadW("spot model", <<"tophat", "gaussian">>)
        [] x = "pd_r" -> NumW("radius r", Zero, Num(50), "1.0", "", "")
        [] x = "pd_ru" -> SelW("r unit", WaistUnits, 0, "")
        [] x = "pd_out" -> SelW("output unit", <<"W/m2", "W/cm2">>, 1, "")
        [] x = "pd_w" -> NumW("radius w", Zero, Num(50), "1.0", "", "")
        [] x = "pd_wu" -> SelW("w unit", WaistUnits, 0, "pd_wunit")
        [] x = "pd_out2" -> SelW("output unit", <<"W/m2", "W/cm2">>, 1, "pd_out2")
        [] x = "od_dir" -> RadW("direction", <<"t2L", "L2t">>)
        [] x = "od_n" -> NumW("index n", One, One, "0.001", "%.6f", "")
        [] x = "od_t" -> NumW("delay dt", Zero, One, "0.1", "", "")
        [] x = "od_tu" -> SelW("dt unit", TimeUnits, 4, "")
        [] x = "od_geom1" -> RadW("geometry", Geometries)
        [] x = "od_L" -> NumW("length dL", Zero, Dec(3, -1), "0.001", "%.6f", "")
        [] x = "od_Lu" -> SelW("dL unit", <<"m", "mm", "um", "nm">>, 0, "")
        [] x = "od_geom2" -> RadW("geometry", Geometries)
        [] x = "dv_lam" -> NumW("wavelength", Zero, Num(1030), "10.0", "", "")
        [] x = "dv_lamu" -> SelW("lambda unit", LengthUnits, 0, "div_lamu")
        [] x = "dv_w0" -> NumW("w0 (1/e2)", Zero, Num(5), "0.5", "", "")
        [] x = "dv_w0u" -> SelW("w0 unit", WaistUnits, 0, "div_w0u")
        [] x = "dv_M2" -> NumW("M2", One, One, "0.1", "%.3f", "")
        [] x = "dv_out" -> SelW("output unit",
                                <<"mrad_half", "deg_half", "mrad_full", "deg_full">>, 0, "")]

(* Streamlit's widget identity: the declaration itself (type, label,       *)
(* parameters, key); the place of the call is no part of it.  Id is the    *)
(* name that stands for every widget with the same declaration.            *)
SameDecl(decl) == [x \in Widgets |-> CHOOSE y \in Widgets : decl[y] = decl[x]]
IdOf == SameDecl(Decl)
Id(x) == IdOf[x]

(* The value a widget shows when session state holds none for it.          *)
DefaultOf(decl) ==
    IF decl.type = "number_input" THEN decl.value ELSE decl.opts[decl.index + 1]
Default(x) == DefaultOf(Decl[x])

(* The value a widget call returns in a run that starts with session       *)
(* state st: the value session state holds under the widget's identity i.  *)
Held(st, i, x) == IF i \in DOMAIN st THEN st[i] ELSE Default(x)
W(st, x) == Held(st, Id(x), x)

(* ---------------- numpy functions -------------------------------------- *)
(* np.sin on the angles the model enters: exact sines for the entries in   *)
(* degrees (30 deg = pi/6, 90 deg = pi/2), three-digit values for those in *)
(* radians (sin(30 rad) = -0.988, sin(90 rad) = 0.894); nan for inf and    *)
(* nan.                                                                    *)
Half == Dec(5, -1)
HalfPi == CanonP(1, 2, 0, 1)
SixthPi == CanonP(1, 6, 0, 1)

Sin(x) ==
    CASE IsExc(x) -> x
      [] x.k \in {"nan", "inf"} -> NaN
      [] x.k = "zero" -> Zero
      [] x = SixthPi -> Half
      [] x = FNeg(SixthPi) -> FNeg(Half)
      [] x = HalfPi -> One
      [] x = FNeg(HalfPi) -> FNeg(One)
      [] x = Num(30) -> Dec(-988, -3)
      [] x = Num(-30) -> Dec(988, -3)
      [] x = Num(90) -> Dec(894, -3)
      [] x = Num(-90) -> Dec(-894, -3)

(* np.arcsin(r) for r in [-1, 1] lies in [-pi/2, pi/2] and grows with r:   *)
(* the bounds the table of exact sines gives for it (equal when r is in    *)
(* the table); nan outside [-1, 1].                                        *)
ArcSinLo(r) ==
    IF IsExc(r) THEN r
    ELSE IF r.k = "nan" \/ Lt(r, FNeg(One)) \/ Gt(r, One) THEN NaN
    ELSE IF r = One THEN HalfPi
    ELSE IF Le(Half, r) THEN SixthPi
    ELSE IF Le(Zero, r) THEN Zero
    ELSE IF Le(FNeg(Half), r) THEN FNeg(SixthPi)
    ELSE FNeg(HalfPi)

ArcSinHi(r) ==
    IF IsExc(r) THEN r
    ELSE IF r.k = "nan" \/ Lt(r, FNeg(One)) \/ Gt(r, One) THEN NaN
    ELSE IF r = FNeg(One) THEN FNeg(HalfPi)
    ELSE IF Le(r, FNeg(Half)) THEN FNeg(SixthPi)
    ELSE IF Le(r, Zero) THEN Zero
    ELSE IF Le(r, Half) THEN SixthPi
    ELSE HalfPi

deg2rad(x) == FMul(x, FDiv(Pi, Num(180)))
rad2deg(x) == FMul(x, FDiv(Num(180), Pi))

(* int(np.floor(x)); FloorOf is the floor of a finite x = +/- num / den.   *)
FloorOf(x, num, den) ==
    IF x.n > 0 THEN PyInt(num \div den)
    ELSE PyInt(IF num % den = 0 THEN -(num \div den) ELSE -(num \div den) - 1)
IntFloor(x) ==
    IF IsExc(x) THEN x
    ELSE IF x.k = "inf" THEN Raise("OverflowError")
    ELSE IF x.k = "nan" THEN Raise("ValueError")
    ELSE IF x.k = "zero" THEN PyInt(0)
    ELSE IF Mag(x) >= IntDigits THEN x
    ELSE IF Mag(x) < 0 THEN PyInt(IF x.n > 0 THEN 0 ELSE -1)
    ELSE FloorOf(x, Abs(x.n) * Pow10(x.e), x.d * Pow10(-x.e))

(* ---------------- the messages of a run -------------------------------- *)
(* kind: "success" (st.success), "error" (st.error) or "info" (st.info,    *)
(* st.write, st.caption); val: the number reported; lo, hi: bounds on the  *)
(* angle reported when it is the arcsine of val (else val itself); shown:  *)
(* the text printed.                                                       *)
Msg(kind, tag, val, lo, hi, shown) ==
    [kind |-> kind, tag |-> tag, val |-> val, lo |-> lo, hi |-> hi, shown |-> shown]

NoStr == Str(NaN, "", "", "")
Err(tag) == Msg("error", tag, NaN, NaN, NaN, NoStr)
Succ(tag, val, shown) == Msg("success", tag, val, val, val, shown)
Info(tag, val, shown) == Msg("info", tag, val, val, val, shown)

(* The outcome of a run that emits ms in order: the messages up to the     *)
(* first one whose text could not be built, and the exception raised.      *)
RECURSIVE Upto(_, _)
Upto(ms, i) ==
    IF i > Len(ms) THEN [msgs |-> ms, exc |-> ""]
    ELSE IF ms[i].shown.exc # "" THEN [msgs |-> SubSeq(ms, 1, i - 1), exc |-> ms[i].shown.exc]
    ELSE Upto(ms, i + 1)

Finish(ms) == Upto(ms, 1)

Errors(o) == {i \in DOMAIN o.msgs : o.msgs[i].kind = "error"}
Successes(o) == {i \in DOMAIN o.msgs : o.msgs[i].kind = "success"}

(* A run whose statements before the first branch computed vals: the      *)
(* first exception among them ends the run before any message.            *)
RECURSIVE FirstExc(_, _)
FirstExc(vals, i) ==
    IF i > Len(vals) THEN ""
    ELSE IF IsExc(vals[i]) THEN vals[i].k
    ELSE FirstExc(vals, i + 1)

Eager(vals, o) ==
    IF FirstExc(vals, 1) # "" THEN [msgs |-> <<>>, exc |-> FirstExc(vals, 1)] ELSE o

(* ---------------- the conversions of the script ------------------------ *)
(* The selectbox whose unit each converted number_input is handed to to_si *)
(* with (the 19 calls of to_si).                                           *)
UnitWidget ==
    [pe_P |-> "pe_Punit",
     pe_f |-> "pe_funit",
     fs_lam |-> "fs_lamu",
     rr_lam |-> "rr_lamu",
     rr_w0 |-> "rr_w0u",
     pp_E |-> "pp_Eu",
     pp_t |-> "pp_tu",
     gr_N |-> "gr_Nu",
     gr_tm |-> "gr_tmu",
     gr_N2 |-> "gr_N2u",
     gr_lam |-> "gr_lamu",
     gr_ti |-> "gr_tiu",
     pd_P |-> "pd_Pu",
     pd_r |-> "pd_ru",
     pd_w |-> "pd_wu",
     od_t |-> "od_tu",
     od_L |-> "od_Lu",
     dv_lam |-> "dv_lamu",
     dv_w0 |-> "dv_w0u"]

(* to_si(x_val, x_unit) in a run that starts with session state st.        *)
SI(st, v) == to_si(W(st, v), W(st, UnitWidget[v]))

(* What the widget calls of a run return (w), and what its to_si calls     *)
(* return (si), by widget.                                                 *)
Values(st) == [x \in Widgets |-> W(st, x)]
Converted(w) == [v \in DOMAIN UnitWidget |-> to_si(w[v], w[UnitWidget[v]])]

(* st.success(f"... {format_eng(val, unit)}") and the same in st.write.    *)
Result(tag, val, unit) == Succ(tag, val, format_eng(val, unit))
Note(tag, val, unit) == Info(tag, val, format_eng(val, unit))
(* st.success(f"... {val:.6g} unit"), the number printed being num.        *)
Plain(tag, val, num, p, unit) == Succ(tag, val, Fmt(num, p, unit))

(* ---------------- the script, one operator per mode -------------------- *)
(* The arguments of a mode's operator are the values its widgets and its   *)
(* to_si calls return, under the names the script gives them.              *)
Modes == {"pulse_energy", "focused_spot", "rayleigh", "peak_power", "angle",
          "grating", "power_density", "delay", "divergence"}

(* 1) lines 64-82 *)
PulseEnergy(P, f) ==
    Eager(<<P, f>>,
          IF Le(f, Zero) THEN Finish(<<Err("rep_rate")>>)
          ELSE Finish(<<Result("E", FDiv(P, f), "J")>>))

(* 2) lines 97-127 *)
AiryFactor == Dec(122, -2)
AiryDiameter(lam, NA) == FDiv(FMul(AiryFactor, lam), NA)
GaussWaist(lam, NA) == FDiv(lam, FMul(Pi, NA))

FocusedSpot(spot_def, lam, NA) ==
    Eager(<<lam>>,
          IF Le(NA, Zero) THEN Finish(<<Err("NA")>>)
          ELSE IF spot_def = "airy"
          THEN Finish(<<Result("airy_d", AiryDiameter(lam, NA), "m"),
                        Info("hint", NaN, NoStr)>>)
          ELSE Finish(<<Result("w0", GaussWaist(lam, NA), "m"),
                        Info("hint", NaN, NoStr)>>))

(* 3) lines 143-176.  RayleighRangeLinear is the faulty variant that does   *)
(* not square w0.                                                          *)
RayleighRangeLinear(w0, lam) == FDiv(FMul(Pi, w0), lam)
RayleighRange(w0, lam) == FDiv(FMul(Pi, FSq(w0)), lam)
Confocal(zR) == FMul(Two, zR)

(* lines 175-176 *)
RayleighResults(pre, zR) ==
    Finish(pre \o <<Result("zR", zR, "m"), Result("DOF", Confocal(zR), "m")>>)

(* lines 170-176; pre is what the run has written before.                  *)
RayleighTail(pre, lam, w0) ==
    IF Le(lam, Zero) \/ Le(w0, Zero) THEN Finish(pre \o <<Err("lam_w0")>>)
    ELSE RayleighResults(pre, RayleighRange(w0, lam))

Rayleigh(input_mode, lam, w0, na_val) ==
    IF input_mode = "direct"
    THEN Eager(<<lam, w0>>, RayleighTail(<<>>, lam, w0))
    ELSE Eager(<<lam>>,
               IF Le(na_val, Zero) THEN Finish(<<Err("NA")>>)
               ELSE RayleighTail(<<Note("w0", GaussWaist(lam, na_val), "m")>>,
                                 lam, GaussWaist(lam, na_val)))

(* 4) lines 191-220; corr = sqrt(pi / (4 ln 2)) = 1.0645 *)
GaussCorr == Dec(10645, -4)
PeakOf(shape, E, tau) ==
    IF shape = "rect" THEN FDiv(E, tau) ELSE FDiv(E, FMul(tau, GaussCorr))

PeakPower(shape, E, tau) ==
    Eager(<<E, tau>>,
          IF Le(tau, Zero) THEN Finish(<<Err("tau")>>)
          ELSE Finish(<<Result("P_peak", PeakOf(shape, E, tau), "W")>>))

(* 5) lines 237-249 *)
AngleConv(submode, deg, rad) ==
    IF submode = "deg2rad"
    THEN Finish(<<Plain("rad", deg2rad(deg), deg2rad(deg), 6, "rad")>>)
    ELSE Finish(<<Plain("deg", rad2deg(rad), rad2deg(rad), 6, "deg")>>)

(* 6) lines 263-347; m is the int the order field returns.                 *)
Spacing(N) == FDiv(One, N)
ImpliedSine(m, lam, d, theta_i) ==
    FSub(FDiv(FMul(ToFloat(m), lam), d), Sin(theta_i))
(* line 302: rhs < -1 or rhs > 1.  NoRealSolutionUpperOnly is the faulty    *)
(* variant that forgets the lower bound.                                   *)
NoRealSolutionUpperOnly(rhs) == Gt(rhs, One)
NoRealSolution(rhs) == Lt(rhs, FNeg(One)) \/ Gt(rhs, One)

(* lines 305-309: theta_m = arcsin(rhs), within [lo, hi]                   *)
AngleFound(rhs, lo, hi, out_unit) ==
    IF out_unit = "deg"
    THEN Finish(<<Msg("success", "theta_m", rhs, rad2deg(lo), rad2deg(hi),
                      Str(rhs, "arcsin", "", "deg"))>>)
    ELSE Finish(<<Msg("success", "theta_m", rhs, lo, hi,
                      Str(rhs, "arcsin", "", "rad"))>>)

(* lines 302-309 *)
AngleOf(rhs, out_unit) ==
    IF NoRealSolution(rhs) THEN Finish(<<Err("no_real_solution")>>)
    ELSE AngleFound(rhs, ArcSinLo(rhs), ArcSinHi(rhs), out_unit)

GratingAngle(m, lam, theta_i, N, out_unit) ==
    Eager(<<lam, theta_i, N>>,
          IF Le(N, Zero) THEN Finish(<<Err("N")>>)
          ELSE AngleOf(ImpliedSine(m, lam, Spacing(N), theta_i), out_unit))

DenomEps == Dec(1, -15)
NearZero(denom) == Lt(FAbs(denom), DenomEps)
SolveSpacing(m, lam, denom) == FDiv(FMul(ToFloat(m), lam), denom)

(* lines 328-332 *)
DensityFound(N, outN_unit) ==
    IF outN_unit = "lines/mm"
    THEN Finish(<<Plain("N", N, FDiv(N, Dec(1, 3)), 6, "lines/mm")>>)
    ELSE Finish(<<Plain("N", N, N, 6, "lines/m")>>)

(* lines 325-332 *)
DensityOf(d, outN_unit) ==
    IF Le(d, Zero) THEN Finish(<<Err("d_nonpositive")>>)
    ELSE DensityFound(FDiv(One, d), outN_unit)

(* lines 321-332 *)
DensityFrom(m, lam, denom, outN_unit) ==
    IF NearZero(denom) THEN Finish(<<Err("denominator")>>)
    ELSE DensityOf(SolveSpacing(m, lam, denom), outN_unit)

GratingDensity(m, lam, theta_i, theta_m, outN_unit) ==
    Eager(<<lam, theta_i, theta_m>>,
          DensityFrom(m, lam, FAdd(Sin(theta_i), Sin(theta_m)), outN_unit))

MaxOrderOf(d, theta_i, lam) ==
    IF Gt(lam, Zero)
    THEN IntFloor(FDiv(FMul(d, FAdd(One, FAbs(Sin(theta_i)))), lam))
    ELSE PyInt(0)

ShowInt(x) == IF IsExc(x) THEN StrExc(x.k) ELSE Str(x, "", "", "")

(* lines 346-347 *)
MaxOrderFound(mmax) ==
    Finish(<<Succ("mmax", mmax, ShowInt(mmax)), Info("caption", NaN, NoStr)>>)

GratingMaxOrder(lam, theta_i, N) ==
    Eager(<<lam, theta_i, N>>,
          IF Le(N, Zero) THEN Finish(<<Err("N")>>)
          ELSE MaxOrderFound(MaxOrderOf(Spacing(N), theta_i, lam)))

Grating(w, si) ==
    IF w["gr_calc"] = "theta_m"
    THEN GratingAngle(w["gr_m"], si["gr_lam"], si["gr_ti"], si["gr_N"], w["gr_out"])
    ELSE IF w["gr_calc"] = "density"
    THEN GratingDensity(w["gr_m"], si["gr_lam"], si["gr_ti"], si["gr_tm"], w["gr_outN"])
    ELSE GratingMaxOrder(si["gr_lam"], si["gr_ti"], si["gr_N2"])

(* 7) lines 361-415 *)
DiskArea(r) == FMul(Pi, FSq(r))
PerCm2(I) == FDiv(I, Dec(1, 4))

(* lines 390-393 *)
Intensity(I, out_unit) ==
    IF out_unit = "W/cm2" THEN Finish(<<Plain("I", I, PerCm2(I), 4, "W/cm2")>>)
    ELSE Finish(<<Plain("I", I, I, 4, "W/m2")>>)

(* lines 376-393 *)
TopHat(P, r, out_unit) ==
    Eager(<<P, r>>,
          IF Le(r, Zero) THEN Finish(<<Err("radius")>>)
          ELSE Intensity(FDiv(P, DiskArea(r)), out_unit))

(* lines 411-415 *)
PeakIntensity(I0, Iavg, out_unit) ==
    IF out_unit = "W/cm2"
    THEN Finish(<<Plain("I0", I0, PerCm2(I0), 4, "W/cm2"),
                  Info("Iavg", Iavg, Fmt(PerCm2(Iavg), 4, "W/cm2"))>>)
    ELSE Finish(<<Plain("I0", I0, I0, 4, "W/m2"),
                  Info("Iavg", Iavg, Fmt(Iavg, 4, "W/m2"))>>)

(* lines 395-415 *)
Gaussian(P, w, out_unit) ==
    Eager(<<P, w>>,
          IF Le(w, Zero) THEN Finish(<<Err("radius")>>)
          ELSE PeakIntensity(FDiv(FMul(Two, P), DiskArea(w)), FDiv(P, DiskArea(w)),
                             out_unit))

PowerDensity(w, si) ==
    IF w["pd_model"] = "tophat" THEN TopHat(si["pd_P"], si["pd_r"], w["pd_out"])
    ELSE Gaussian(si["pd_P"], si["pd_w"], w["pd_out2"])

(* 8) lines 434-472.  DelayToLengthOneWay is the faulty variant that does    *)
(* not halve the length of a double pass.                                  *)
DelayToLengthOneWay(n, dt, geom) == FDiv(FMul(C0, dt), n)
DelayToLength(n, dt, geom) ==
    IF geom = "single" THEN FDiv(FMul(C0, dt), n)
    ELSE FDiv(FMul(C0, dt), FMul(Two, n))

LengthToDelay(n, dL, geom) ==
    IF geom = "single" THEN FDiv(FMul(n, dL), C0)
    ELSE FDiv(FMul(FMul(Two, n), dL), C0)

OpticalDelay(w, si) ==
    IF w["od_dir"] = "t2L"
    THEN Eager(<<si["od_t"]>>,
               Finish(<<Result("dL", DelayToLength(w["od_n"], si["od_t"], w["od_geom1"]),
                               "m")>>))
    ELSE Eager(<<si["od_L"]>>,
               Finish(<<Result("dt", LengthToDelay(w["od_n"], si["od_L"], w["od_geom2"]),
                               "s")>>))

(* 9) lines 489-524 *)
HalfAngle(M2, lam, w0) == FDiv(FMul(M2, lam), FMul(Pi, w0))

(* lines 515-524, theta being the half angle or the full angle, twice it.  *)
AngleShown(tag, theta, unit) ==
    IF unit = "mrad" THEN Finish(<<Plain(tag, theta, FMul(theta, Dec(1, 3)), 6, "mrad")>>)
    ELSE Finish(<<Plain(tag, theta, rad2deg(theta), 6, "deg")>>)

(* lines 514-524 *)
DivergenceOf(theta_half, out_unit) ==
    IF out_unit = "mrad_half" THEN AngleShown("theta_half", theta_half, "mrad")
    ELSE IF out_unit = "deg_half" THEN AngleShown("theta_half", theta_half, "deg")
    ELSE IF out_unit = "mrad_full"
    THEN AngleShown("theta_full", FMul(Two, theta_half), "mrad")
    ELSE AngleShown("theta_full", FMul(Two, theta_half), "deg")

Divergence(lam, w0, M2, out_unit) ==
    Eager(<<lam, w0>>,
          IF Le(lam, Zero) \/ Le(w0, Zero) THEN Finish(<<Err("lam_w0")>>)
          ELSE DivergenceOf(HalfAngle(M2, lam, w0), out_unit))

(* The branch of the selected mode (lines 64-489), given what the widget   *)
(* calls (w) and the to_si calls (si) of the run return.                   *)
Branch(m, w, si) ==
    CASE m = "pulse_energy" -> PulseEnergy(si["pe_P"], si["pe_f"])
      [] m = "focused_spot" -> FocusedSpot(w["fs_def"], si["fs_lam"], w["fs_NA"])
      [] m = "rayleigh" ->
            Rayleigh(w["rr_input"], si["rr_lam"], si["rr_w0"], w["rr_NA"])
      [] m = "peak_power" -> PeakPower(w["pp_shape"], si["pp_E"], si["pp_t"])
      [] m = "angle" -> AngleConv(w["ac_dir"], w["ac_deg"], w["ac_rad"])
      [] m = "grating" -> Grating(w, si)
      [] m = "power_density" -> PowerDensity(w, si)
      [] m = "delay" -> OpticalDelay(w, si)
      [] OTHER -> Divergence(si["dv_lam"], si["dv_w0"], w["dv_M2"], w["dv_out"])

(* What a run of the script in mode m reports when it starts with session  *)
(* state st.                                                               *)
Script(m, st) == Branch(m, Values(st), Converted(Values(st)))

(* The widgets a run of mode m calls, given the values of its radios.      *)
Rendered(m, w) ==
    CASE m = "pulse_energy" -> {"pe_P", "pe_Punit", "pe_f", "pe_funit"}
      [] m = "focused_spot" -> {"fs_def", "fs_lam", "fs_lamu", "fs_NA"}
      [] m = "rayleigh" ->
            {"rr_input", "rr_lam", "rr_lamu"} \cup
            (IF w["rr_input"] = "direct" THEN {"rr_w0", "rr_w0u"} ELSE {"rr_NA"})
      [] m = "peak_power" -> {"pp_E", "pp_Eu", "pp_t", "pp_tu", "pp_shape"}
      [] m = "angle" ->
            {"ac_dir"} \cup (IF w["ac_dir"] = "deg2rad" THEN {"ac_deg"} ELSE {"ac_rad"})
      [] m = "grating" ->
            {"gr_calc", "gr_lam", "gr_lamu", "gr_ti", "gr_tiu", "gr_m"} \cup
            (IF w["gr_calc"] = "theta_m" THEN {"gr_N", "gr_Nu", "gr_out"}
             ELSE IF w["gr_calc"] = "density" THEN {"gr_tm", "gr_tmu", "gr_outN"}
             ELSE {"gr_N2", "gr_N2u"})
      [] m = "power_density" ->
            {"pd_P", "pd_Pu", "pd_model"} \cup
            (IF w["pd_model"] = "tophat" THEN {"pd_r", "pd_ru", "pd_out"}
             ELSE {"pd_w", "pd_wu", "pd_out2"})
      [] m = "delay" ->
            {"od_dir", "od_n"} \cup
            (IF w["od_dir"] = "t2L" THEN {"od_t", "od_tu", "od_geom1"}
             ELSE {"od_L", "od_Lu", "od_geom2"})
      [] OTHER -> {"dv_lam", "dv_lamu", "dv_w0", "dv_w0u", "dv_M2", "dv_out"}

(* ---------------- the values the model enters -------------------------- *)
MaxOrder == 2

(* The numbers typed into a number_input: its default, the smallest value  *)
(* it admits and other ordinary magnitudes.                                *)
NumChoices(x) ==
    CASE x \in {"pe_P", "pd_P"} -> {Zero, Num(1), Num(25)}
      [] x = "pe_f" -> {Zero, Num(100), Num(250)}
      [] x \in {"fs_lam", "rr_lam", "dv_lam"} -> {Zero, Num(1030), Num(800)}
      [] x \in {"fs_NA", "rr_NA"} -> {Zero, Dec(1, -1), Dec(5, -1)}
      [] x = "rr_w0" -> {Zero, Num(5), Num(20)}
      [] x = "pp_E" -> {Zero, Num(10)}
      [] x = "pp_t" -> {Zero, Num(300)}
      [] x = "ac_deg" -> {Num(30), Num(-90), Zero}
      [] x = "ac_rad" -> {FDiv(Pi, Num(6)), Zero, One}
      [] x = "gr_lam" -> {Zero, Num(532)}
      [] x \in {"gr_ti", "gr_tm"} -> {Num(-30), Zero, Num(30), Num(90)}
      [] x = "gr_m" -> {PyInt(i) : i \in -MaxOrder .. MaxOrder}
      [] x \in {"gr_N", "gr_N2"} -> {Zero, Num(1200), Num(600)}
      [] x \in {"pd_r", "pd_w"} -> {Zero, Num(50)}
      [] x = "od_n" -> {One, Dec(15, -1)}
      [] x = "od_t" -> {Zero, One, Two}
      [] x = "od_L" -> {Zero, Dec(3, -1), Dec(15, -1)}
      [] x = "dv_w0" -> {Zero, Num(5)}
      [] x = "dv_M2" -> {One, Dec(13, -1)}

(* Numbers at the ends of what a number_input admits (any double from its  *)
(* min_value up): a large one, a small one and a subnormal one.            *)
WideChoices(x) ==
    CASE x = "rr_w0" -> NumChoices(x) \cup {Dec(1, 200)}
      [] x = "pd_r" -> NumChoices(x) \cup {Dec(1, -200)}
      [] x \in {"gr_lam", "gr_N2"} -> NumChoices(x) \cup {Dec(1, -310)}
      [] OTHER -> NumChoices(x)

OptionsOf(decl) == {decl.opts[i] : i \in DOMAIN decl.opts}
Options(x) == OptionsOf(Decl[x])

(* The arguments the helper functions are called with on their own: the    *)
(* values format_eng does not scale, and finite values of either sign on   *)
(* both sides of every power of ten from 1e-17 to 1e17.                    *)
MaxDecade == 17

FmtArgs ==
    {PyInt(0), Zero, NaN, Inf(1), Inf(-1)} \cup
    {FMul(s, FMul(m, Dec(1, e))) :
        s \in {One, FNeg(One)}, m \in {Num(1), Dec(15, -1), Dec(9995, -1), Num(999)},
        e \in -MaxDecade .. MaxDecade}

UnitArgs == DOMAIN scale \cup {"cm", "THz", "lines/um", ""}
ValueArgs == {Zero, One, Num(-30), Dec(25, -1)}

(* ---------------- the state machine ------------------------------------ *)
(* mode: the sidebar radio (line 43); ws: Streamlit's session state, the   *)
(* value of every widget the last run called, by widget identity; out:     *)
(* what the last run reported; call: the last call of a helper function    *)
(* made on its own (its name, arguments and result), outside a run.        *)
VARIABLES mode, ws, out, call
vars == <<mode, ws, out, call>>

NoCall == [f |-> "", x |-> NaN, unit |-> "", ret |-> NoStr]

(* Session state after a run of mode m whose widget calls returned w: the  *)
(* widgets the run called keep (or get) their values, every other one is   *)
(* dropped.                                                                *)
Kept(m, w) == [i \in {Id(x) : x \in Rendered(m, w)} |-> w[i]]

(* A run of the script in mode m, the widget calls returning w.            *)
RunOf(m, w) ==
    /\ mode' = m
    /\ ws' = Kept(m, w)
    /\ out' = Branch(m, w, Converted(w))
    /\ call' = call

(* A run of the script in mode m that starts with session state st.        *)
Rerun(m, st) == RunOf(m, Values(st))

Init ==
    /\ mode = "pulse_energy"
    /\ ws = Kept("pulse_energy", Values(<<>>))
    /\ out = Script("pulse_energy", <<>>)
    /\ call = NoCall

(* The user picks another mode in the sidebar: the script runs again.      *)
SelectMode ==
    \E m \in Modes \ {mode} : Rerun(m, ws)

(* The user picks another option of a selectbox or radio shown.            *)
SetOption ==
    \E x \in DOMAIN ws :
        /\ Decl[x].type \in {"selectbox", "radio"}
        /\ \E v \in Options(x) \ {ws[x]} : Rerun(mode, [ws EXCEPT ![x] = v])

(* The user types another number into a number_input shown.                *)
SetNumber ==
    \E x \in DOMAIN ws :
        /\ Decl[x].type = "number_input"
        /\ \E v \in NumChoices(x) \ {ws[x]} : Rerun(mode, [ws EXCEPT ![x] = v])

(* The same, with the numbers at the ends of the range among the entries.  *)
SetNumberWide ==
    \E x \in DOMAIN ws :
        /\ Decl[x].type = "number_input"
        /\ \E v \in WideChoices(x) \ {ws[x]} : Rerun(mode, [ws EXCEPT ![x] = v])

Next == SelectMode \/ SetOption \/ SetNumber

Spec == Init /\ [][Next]_vars

NextWide == SelectMode \/ SetOption \/ SetNumberWide

SpecWide == Init /\ [][NextWide]_vars

(* The helper functions called on their own.                               *)
CallFormatEng ==
    /\ \E x \in FmtArgs, u \in {"W", "m"} :
          call' = [f |-> "format_eng", x |-> x, unit |-> u, ret |-> format_eng(x, u)]
    /\ UNCHANGED <<mode, ws, out>>

CallToSi ==
    /\ \E x \in ValueArgs, u \in UnitArgs :
          call' = [f |-> "to_si", x |-> x, unit |-> u,
                   ret |-> Str(to_si(x, u), "", "", "")]
    /\ UNCHANGED <<mode, ws, out>>

NextHelpers == CallFormatEng \/ CallToSi

SpecHelpers == Init /\ [][NextHelpers]_vars

(* ======================= binary64 ======================================= *)
(* The last bit of a double decides an integer where the script takes a    *)
(* floor or compares with 1, so the grating functions are also modelled in *)
(* IEEE-754 binary64 with round-to-nearest-even.  A natural number beyond  *)
(* 2^31 is a little-endian sequence of digits in base 8192 = 2^13.         *)
Digit(a, i) == IF i <= Len(a) THEN a[i] ELSE 0

RECURSIVE Trim(_)
Trim(a) == IF a = <<>> \/ a[Len(a)] # 0 THEN a ELSE Trim(SubSeq(a, 1, Len(a) - 1))

(* a + b from digit i on, with carry c.                                    *)
RECURSIVE BigAdd(_, _, _, _)
BigAdd(a, b, i, c) ==
    IF i > Len(a) /\ i > Len(b) THEN (IF c = 0 THEN <<>> ELSE <<c>>)
    ELSE <<(Digit(a, i) + Digit(b, i) + c) % 8192>>
         \o BigAdd(a, b, i + 1, (Digit(a, i) + Digit(b, i) + c) \div 8192)

(* a - b from digit i on, with borrow c, for a >= b.                       *)
RECURSIVE BigSub(_, _, _, _)
BigSub(a, b, i, c) ==
    IF i > Len(a) THEN <<>>
    ELSE <<(Digit(a, i) - Digit(b, i) - c + 8192) % 8192>>
         \o BigSub(a, b, i + 1, IF Digit(a, i) - Digit(b, i) - c < 0 THEN 1 ELSE 0)

(* a * k + c from digit i on, for 0 <= k, c < 8192.                        *)
RECURSIVE BigScale(_, _, _, _)
BigScale(a, k, i, c) ==
    IF i > Len(a) THEN (IF c = 0 THEN <<>> ELSE <<c>>)
    ELSE <<(a[i] * k + c) % 8192>> \o BigScale(a, k, i + 1, (a[i] * k + c) \div 8192)

(* a * b, from digit j of b on.                                            *)
RECURSIVE BigMul(_, _, _)
BigMul(a, b, j) ==
    IF j > Len(b) THEN <<>>
    ELSE BigAdd(BigScale(a, b[j], 1, 0), <<0>> \o BigMul(a, b, j + 1), 1, 0)

(* The sign of a - b, compared from digit i down.                          *)
RECURSIVE BigCmp(_, _, _)
BigCmp(a, b, i) ==
    IF i = 0 THEN 0
    ELSE IF Digit(a, i) < Digit(b, i) THEN -1
    ELSE IF Digit(a, i) > Digit(b, i) THEN 1
    ELSE BigCmp(a, b, i - 1)

Cmp(a, b) == BigCmp(a, b, IF Len(a) > Len(b) THEN Len(a) ELSE Len(b))

(* The number of binary digits of n, and of a trimmed a.                   *)
RECURSIVE BitsOf(_)
BitsOf(n) == IF n = 0 THEN 0 ELSE 1 + BitsOf(n \div 2)

Bits(a) == IF a = <<>> THEN 0 ELSE 13 * (Len(a) - 1) + BitsOf(a[Len(a)])

(* floor(a / k) for the digits 1..i of a, with remainder r carried down    *)
(* from the digits above, for 0 < k <= 8192.                               *)
RECURSIVE BigQuot(_, _, _, _)
BigQuot(a, k, i, r) ==
    IF i = 0 THEN <<>>
    ELSE BigQuot(a, k, i - 1, (r * 8192 + a[i]) % k) \o <<(r * 8192 + a[i]) \div k>>

(* a * 2^s and floor(a / 2^s).                                             *)
Shl(a, s) == Trim([i \in 1..(s \div 13) |-> 0] \o BigScale(a, 2^(s % 13), 1, 0))
Chop(b, s) == Trim(BigQuot(b, 2^(s % 13), Len(b), 0))
Shr(a, s) == IF s \div 13 >= Len(a) THEN <<>> ELSE Chop(SubSeq(a, s \div 13 + 1, Len(a)), s)

(* The largest digit t in lo..hi with t * b <= r, by bisection.             *)
RECURSIVE DigitOf(_, _, _, _)
DigitOf(r, b, lo, hi) ==
    IF lo = hi THEN lo
    ELSE IF Cmp(BigScale(b, (lo + hi + 1) \div 2, 1, 0), r) <= 0
         THEN DigitOf(r, b, (lo + hi + 1) \div 2, hi)
         ELSE DigitOf(r, b, lo, (lo + hi + 1) \div 2 - 1)

(* Long division: <<floor(r * 8192^n / b), remainder>> for r < b, the      *)
(* quotient in n digits.  BigStep takes the digit t of 8192 * r = R.       *)
RECURSIVE BigDiv(_, _, _)
WithDigit(qr, t) == <<qr[1] \o <<t>>, qr[2]>>
BigStep(R, b, t, n) == WithDigit(BigDiv(Trim(BigSub(R, BigScale(b, t, 1, 0), 1, 0)), b, n - 1), t)
BigDiv(r, b, n) ==
    IF n = 0 THEN <<<<>>, r>>
    ELSE BigStep(Trim(<<0>> \o r), b, DigitOf(Trim(<<0>> \o r), b, 0, 8191), n)

(* A small natural number as a sequence of digits, and back.               *)
RECURSIVE ToBig(_)
ToBig(n) == IF n = 0 THEN <<>> ELSE <<n % 8192>> \o ToBig(n \div 8192)

RECURSIVE FromBig(_, _)
FromBig(a, i) == IF i > Len(a) THEN 0 ELSE a[i] + 8192 * FromBig(a, i + 1)

(* A double: s * m * 2^e with s the sign (0 for zero) and 2^52 <= m < 2^53.*)
(* Infinities, nan and subnormals do not occur at the magnitudes used.     *)
Dbl(s, m, e) == [s |-> s, m |-> m, e |-> e]
DZero == Dbl(0, <<>>, 0)

(* The double of s * m * 2^e for m of 53 bits or 54 (a carry out of the    *)
(* rounding).                                                              *)
Carry(s, m, e) == IF Bits(m) = 54 THEN Dbl(s, Shr(m, 1), e + 1) ELSE Dbl(s, m, e)

(* Round to nearest, ties to even: kept are the upper 53 bits of M, half   *)
(* the upper 54, exact says that nothing lies below the 54th.              *)
Nearest(s, kept, half, exact, e) ==
    IF half[1] % 2 = 1 /\ (~exact \/ kept[1] % 2 = 1)
    THEN Carry(s, BigAdd(kept, <<1>>, 1, 0), e)
    ELSE Dbl(s, kept, e)

(* The double nearest to s * (M + r) * 2^e, where 0 <= r < 1 and r > 0 iff *)
(* sticky; M has at least 55 bits when sticky.                             *)
RoundBits(s, M, e, sticky, sh) ==
    IF sh <= 0 THEN Dbl(s, Shl(M, -sh), e + sh)
    ELSE Nearest(s, Shr(M, sh), Shr(M, sh - 1),
                 ~sticky /\ Cmp(Shl(Shr(M, sh - 1), sh - 1), M) = 0, e + sh)

Round64(s, M, e, sticky) ==
    IF Trim(M) = <<>> THEN DZero ELSE RoundBits(s, Trim(M), e, sticky, Bits(Trim(M)) - 53)

(* a * b.                                                                   *)
DMul(a, b) == Round64(a.s * b.s, BigMul(a.m, b.m, 1), a.e + b.e, FALSE)

(* a / b for b # 0.  The divisor is scaled by 2^k to exceed the dividend   *)
(* and the quotient is taken to n digits, 56 bits at least.                *)
Quotient(s, qr, e) == Round64(s, qr[1], e, qr[2] # <<>>)
QuotientOf(s, a, b, k, n, e) == Quotient(s, BigDiv(a, Shl(b, k), n), e + k - 13 * n)
Ratio(s, a, b, e) ==
    QuotientOf(s, a, b, IF Bits(a) >= Bits(b) THEN Bits(a) - Bits(b) + 1 ELSE 0,
               IF Bits(a) >= Bits(b) THEN 5 ELSE (56 + Bits(b) - Bits(a)) \div 13 + 1, e)
DDiv(a, b) == IF a.s = 0 THEN DZero ELSE Ratio(a.s * b.s, a.m, b.m, a.e - b.e)

(* a + b: the mantissas on the common exponent lo.                         *)
Aligned(sa, A, sb, B, lo) ==
    IF sa = sb THEN Round64(sa, BigAdd(A, B, 1, 0), lo, FALSE)
    ELSE IF Cmp(A, B) >= 0 THEN Round64(sa, BigSub(A, B, 1, 0), lo, FALSE)
    ELSE Round64(sb, BigSub(B, A, 1, 0), lo, FALSE)
AlignedAt(a, b, lo) == Aligned(a.s, Shl(a.m, a.e - lo), b.s, Shl(b.m, b.e - lo), lo)
DAdd(a, b) ==
    IF a.s = 0 THEN b ELSE IF b.s = 0 THEN a
    ELSE AlignedAt(a, b, IF a.e < b.e THEN a.e ELSE b.e)
DNeg(a) == [a EXCEPT !.s = -a.s]
DSub(a, b) == DAdd(a, DNeg(b))
DAbs(a) == [a EXCEPT !.s = a.s * a.s]
DLt(a, b) == DSub(a, b).s < 0

(* int(np.floor(x)) for x >= 0.                                            *)
DFloor(x) == IF x.s = 0 THEN 0 ELSE IF x.e >= 0 THEN FromBig(Shl(x.m, x.e), 1) ELSE FromBig(Shr(x.m, -x.e), 1)

(* float(n) of an int, and the double of a decimal literal: its digits g   *)
(* in groups of three, most significant first, times 10^e.                 *)
DInt(n) == Round64(IF n < 0 THEN -1 ELSE 1, ToBig(Abs(n)), 0, FALSE)

RECURSIVE Groups(_, _, _)
Groups(g, i, acc) == IF i > Len(g) THEN acc ELSE Groups(g, i + 1, BigScale(acc, 1000, 1, g[i]))

RECURSIVE BigPow10(_)
BigPow10(k) == IF k = 0 THEN <<1>> ELSE BigScale(BigPow10(k - 1), 10, 1, 0)

DLit(g, e) ==
    IF e >= 0 THEN Round64(1, BigMul(Groups(g, 1, <<>>), BigPow10(e), 1), 0, FALSE)
    ELSE Ratio(1, Groups(g, 1, <<>>), BigPow10(-e), 0)

(* ---------------- the grating functions in binary64 --------------------- *)
(* lines 14-25: value * scale[unit] for the units of the grating form;     *)
(* np.pi is the double 3.141592653589793.                                  *)
to_si64(value, unit) ==
    DMul(value,
         CASE unit \in {"m", "rad", "lines/m"} -> DLit(<<1>>, 0)
           [] unit = "mm" -> DLit(<<1>>, -3)
           [] unit = "um" -> DLit(<<1>>, -6)
           [] unit = "nm" -> DLit(<<1>>, -9)
           [] unit = "lines/mm" -> DLit(<<1>>, 3)
           [] unit = "deg" -> DDiv(DLit(<<3, 141, 592, 653, 589, 793>>, -15), DLit(<<180>>, 0)))

(* np.sin of the angles entered: sin(0) = 0, and for the doubles of 30 deg *)
(* and 90 deg in radians 0.49999999999999994 and 1.0; sin is odd.          *)
Sin64(theta) ==
    CASE theta.s = 0 -> DZero
      [] DAbs(theta) = to_si64(DInt(30), "deg") ->
            DMul(DInt(theta.s), DLit(<<49, 999, 999, 999, 999, 994>>, -17))
      [] DAbs(theta) = to_si64(DInt(90), "deg") -> DInt(theta.s)

(* lines 300-301: d = 1.0 / N; rhs = (m * lam / d) - np.sin(theta_i).      *)
ImpliedSine64(m, lam, theta_i, N) ==
    DSub(DDiv(DMul(DInt(m), lam), DDiv(DLit(<<1>>, 0), N)), Sin64(theta_i))

(* line 302: rhs < -1 or rhs > 1.                                          *)
NoRealSolution64(rhs) == DLt(rhs, DInt(-1)) \/ DLt(DInt(1), rhs)

(* lines 343-345: d = 1.0 / N;                                             *)
(* int(np.floor(d * (1.0 + abs(np.sin(theta_i))) / lam)) if lam > 0 else 0 *)
MaxOrderOf64(lam, theta_i, N) ==
    IF DLt(DZero, lam)
    THEN DFloor(DDiv(DMul(DDiv(DLit(<<1>>, 0), N),
                          DAdd(DLit(<<1>>, 0), DAbs(Sin64(theta_i)))), lam))
    ELSE 0

(* The entries of the grating form: a wavelength, an incidence angle and a *)
(* line density, each with its unit.                                       *)
TopOrder == 6
GratingArgs ==
    {a \in [lam : {0, 200, 500, 532}, lam_unit : {"nm", "um"},
            theta_i : {-30, 0, 30, 90}, theta_i_unit : {"deg", "rad"},
            N : {0, 250, 400, 1200}, N_unit : {"lines/mm", "lines/m"}] :
        a.theta_i_unit = "deg" \/ a.theta_i = 0}

(* lines 334-347, the max-order branch: an error for N <= 0, else |m|max.  *)
(* The branches keep no state between runs: each is called once, on the    *)
(* initial state.                                                          *)
CallMaxOrder ==
    /\ call = NoCall
    /\ \E a \in GratingArgs :
          call' = [f |-> "max_order", args |-> a, m |-> 0,
                   error |-> ~DLt(DZero, to_si64(DInt(a.N), a.N_unit)),
                   ret |-> IF ~DLt(DZero, to_si64(DInt(a.N), a.N_unit)) THEN 0
                           ELSE MaxOrderOf64(to_si64(DInt(a.lam), a.lam_unit),
                                             to_si64(DInt(a.theta_i), a.theta_i_unit),
                                             to_si64(DInt(a.N), a.N_unit))]
    /\ UNCHANGED <<mode, ws, out>>

(* lines 296-305, the theta_m branch: an error for N <= 0, else no real    *)
(* solution (ret 0) or an angle (ret 1).                                   *)
CallSolveAngle ==
    /\ call = NoCall
    /\ \E a \in GratingArgs, m \in -TopOrder..TopOrder :
          call' = [f |-> "theta_m", args |-> a, m |-> m,
                   error |-> ~DLt(DZero, to_si64(DInt(a.N), a.N_unit)),
                   ret |-> IF ~DLt(DZero, to_si64(DInt(a.N), a.N_unit)) THEN 0
                           ELSE IF NoRealSolution64(
                                     ImpliedSine64(m, to_si64(DInt(a.lam), a.lam_unit),
                                                   to_si64(DInt(a.theta_i), a.theta_i_unit),
                                                   to_si64(DInt(a.N), a.N_unit)))
                                THEN 0 ELSE 1]
    /\ UNCHANGED <<mode, ws, out>>

NextGrating == CallMaxOrder \/ CallSolveAngle

SpecGrating == Init /\ [][NextGrating]_vars

(* ======================= the claims ===================================== *)
(* The quantities a claim reads off a state: an input of the last run in   *)
(* SI units, the first success message of the run, and its error messages. *)
In(v, u) == to_si(W(ws, v), W(ws, u))
Sub(radio) == W(ws, radio)
HasError(tag) == \E i \in Errors(out) : out.msgs[i].tag = tag
OnlyError(tag) ==
    /\ out.exc = ""
    /\ Successes(out) = {}
    /\ Cardinality(Errors(out)) = 1
    /\ HasError(tag)
Reported(tag) == {out.msgs[i] : i \in {j \in Successes(out) : out.msgs[j].tag = tag}}

(* ---------------- C1 ---------------------------------------------------- *)
(* The quantities the formula of the selected mode and sub-mode divides    *)
(* by, as the claim lists them.                                            *)
Divisors ==
    CASE mode = "pulse_energy" -> {In("pe_f", "pe_funit")}
      [] mode = "focused_spot" -> {W(ws, "fs_NA")}
      [] mode = "rayleigh" ->
            {In("rr_lam", "rr_lamu")} \cup
            (IF Sub("rr_input") = "direct" THEN {In("rr_w0", "rr_w0u")}
             ELSE {W(ws, "rr_NA")})
      [] mode = "peak_power" -> {In("pp_t", "pp_tu")}
      [] mode = "grating" ->
            IF Sub("gr_calc") = "theta_m" THEN {In("gr_N", "gr_Nu")}
            ELSE IF Sub("gr_calc") = "density" THEN {In("gr_lam", "gr_lamu")}
            ELSE {In("gr_N2", "gr_N2u"), In("gr_lam", "gr_lamu")}
      [] mode = "power_density" ->
            IF Sub("pd_model") = "tophat" THEN {In("pd_r", "pd_ru")}
            ELSE {In("pd_w", "pd_wu")}
      [] mode = "divergence" -> {In("dv_w0", "dv_w0u")}
      [] OTHER -> {}

(* C1: whenever a quantity the mode's formula divides by is <= 0, the run  *)
(* reports a validation error and no success.                              *)
C1_NonPositiveDivisorRejected ==
    (\E q \in Divisors : Le(q, Zero)) =>
        (Errors(out) # {} /\ Successes(out) = {})

(* C1, without the wavelength of the maximum-order estimate: every other   *)
(* non-positive divisor is rejected.                                       *)
C1_RejectedButMaxOrderWavelength ==
    (\E q \in Divisors : Le(q, Zero)) =>
        \/ Errors(out) # {} /\ Successes(out) = {}
        \/ /\ mode = "grating" /\ Sub("gr_calc") = "max_order"
           /\ Gt(In("gr_N2", "gr_N2u"), Zero)
           /\ In("gr_lam", "gr_lamu") = Zero
           /\ Reported("mmax") = {Succ("mmax", PyInt(0), ShowInt(PyInt(0)))}

(* ---------------- C2 ---------------------------------------------------- *)
(* C2: every run ends with successes and no error, or with exactly one     *)
(* validation error and no success, and never with an uncaught exception.  *)
C2_OneKindOfOutcome ==
    /\ out.exc = ""
    /\ \/ Successes(out) # {} /\ Errors(out) = {}
       \/ Successes(out) = {} /\ Cardinality(Errors(out)) = 1

(* C2 for the runs that raise nothing: never both kinds, never neither.    *)
C2_OneKindUnlessRaised ==
    out.exc = "" =>
        \/ Successes(out) # {} /\ Errors(out) = {}
        \/ Successes(out) = {} /\ Cardinality(Errors(out)) = 1

(* ---------------- C3 ---------------------------------------------------- *)
(* The implied sine as the claim writes it, m * lambda * N - sin(theta_i), *)
(* from the inputs of the state.                                           *)
ClaimedSine ==
    FSub(FMul(FMul(ToFloat(W(ws, "gr_m")), In("gr_lam", "gr_lamu")), In("gr_N", "gr_Nu")),
         Sin(In("gr_ti", "gr_tiu")))

InUnitInterval(x) == Le(FNeg(One), x) /\ Le(x, One)

(* The right angle in the unit the angle is reported in.                   *)
RightAngle == IF W(ws, "gr_out") = "deg" THEN Num(90) ELSE HalfPi

(* msg reports an angle theta_m in [-90deg, 90deg] with                    *)
(* m * lambda = d * (sin(theta_i) + sin(theta_m)), d = 1/N; msg.val is     *)
(* sin(theta_m) and [msg.lo, msg.hi] encloses theta_m.                     *)
SolvesGratingEquation(msg) ==
    /\ InUnitInterval(msg.val)
    /\ Le(FNeg(RightAngle), msg.lo) /\ Le(msg.lo, msg.hi) /\ Le(msg.hi, RightAngle)
    /\ FMul(ToFloat(W(ws, "gr_m")), In("gr_lam", "gr_lamu")) =
           FMul(FDiv(One, In("gr_N", "gr_Nu")),
                FAdd(Sin(In("gr_ti", "gr_tiu")), msg.val))

SpecExample(m) ==
    /\ mode = "grating" /\ Sub("gr_calc") = "theta_m"
    /\ In("gr_lam", "gr_lamu") = Dec(532, -9)
    /\ W(ws, "gr_ti") = Zero
    /\ In("gr_N", "gr_Nu") = Dec(12, 5)
    /\ W(ws, "gr_m") = PyInt(m)

C3_EdgeReached ==
    /\ mode = "grating" /\ Sub("gr_calc") = "theta_m"
    /\ ClaimedSine = FNeg(One)
    /\ \E msg \in Reported("theta_m") :
           msg.lo = FNeg(RightAngle) /\ msg.hi = FNeg(RightAngle)

(* ---------------- C4 ---------------------------------------------------- *)
(* The denominator and the spacing as the claim writes them.               *)
ClaimedDenom == FAdd(Sin(In("gr_ti", "gr_tiu")), Sin(In("gr_tm", "gr_tmu")))
ClaimedSpacing == FDiv(FMul(ToFloat(W(ws, "gr_m")), In("gr_lam", "gr_lamu")), ClaimedDenom)

SolvingDensity == mode = "grating" /\ Sub("gr_calc") = "density"

(* The checks in the claimed order; positive(N) is what a reported N must  *)
(* satisfy.                                                                *)
ChecksInOrder(positive(_)) ==
    SolvingDensity =>
        /\ out.exc = ""
        /\ IF Lt(FAbs(ClaimedDenom), Dec(1, -15)) THEN OnlyError("denominator")
           ELSE IF Le(ClaimedSpacing, Zero) THEN OnlyError("d_nonpositive")
           ELSE /\ Errors(out) = {}
                /\ Cardinality(Successes(out)) = 1
                /\ \E msg \in Reported("N") :
                      msg.val = FDiv(One, ClaimedSpacing) /\ positive(msg.val)
        /\ ( /\ ~Lt(FAbs(ClaimedDenom), Dec(1, -15))
             /\ \/ W(ws, "gr_m") = PyInt(0)
                \/ In("gr_lam", "gr_lamu") = Zero
                \/ Sign(W(ws, "gr_m")) * Sign(ClaimedDenom) < 0 )
           => OnlyError("d_nonpositive")

PositiveFinite(N) == N.k = "fin" /\ N.n > 0
Positive(N) == N.k \in {"fin", "inf"} /\ N.n > 0

(* C4: solving for the line density, the near-zero-denominator error comes *)
(* first, then the error for a spacing d <= 0 (m = 0, lambda = 0 and       *)
(* mismatched signs all give it), then success; every reported N = 1/d is  *)
(* strictly positive and finite.                                           *)
C4_ChecksInOrderFiniteDensity == ChecksInOrder(PositiveFinite)

(* C4 without finiteness: the order of the checks, and N = 1/d > 0.        *)
C4_ChecksInOrderPositiveDensity == ChecksInOrder(Positive)

(* ---------------- C5 ---------------------------------------------------- *)
(* The physical dimension of a unit symbol, and of each converted input    *)
(* (by what its label asks for).                                           *)
DimensionOf(u) ==
    CASE u \in {"W", "mW", "kW"} -> "power"
      [] u \in {"Hz", "kHz", "MHz", "GHz"} -> "frequency"
      [] u \in {"J", "mJ", "uJ", "nJ"} -> "energy"
      [] u \in {"s", "ms", "us", "ns", "ps", "fs"} -> "time"
      [] u \in {"m", "mm", "um", "nm"} -> "length"
      [] u \in {"deg", "rad"} -> "angle"
      [] u \in {"cm2", "mm2", "um2", "m2"} -> "area"
      [] u \in {"lines/mm", "lines/m"} -> "line density"
      [] OTHER -> "unknown"

InputDimension(v) ==
    CASE v \in {"pe_P", "pd_P"} -> "power"
      [] v = "pe_f" -> "frequency"
      [] v = "pp_E" -> "energy"
      [] v \in {"pp_t", "od_t"} -> "time"
      [] v \in {"gr_ti", "gr_tm"} -> "angle"
      [] v \in {"gr_N", "gr_N2"} -> "line density"
      [] OTHER -> "length"

Shown(v) == Id(v) \in DOMAIN ws /\ Id(UnitWidget[v]) \in DOMAIN ws

(* C5: to_si multiplies by the table's scale for a unit of the table and   *)
(* fails with KeyError for any other symbol; every unit a selector can     *)
(* hand to to_si is in the table and of the dimension of its input, so no  *)
(* run ends with KeyError and every conversion of a run uses a scale of    *)
(* the input's own dimension.                                              *)
C5_UnitsKnownAndOfTheirDimension ==
    /\ \A x \in ValueArgs, u \in UnitArgs :
          to_si(x, u) = IF DimensionOf(u) # "unknown" THEN FMul(x, scale[u])
                        ELSE Raise("KeyError")
    /\ \A v \in DOMAIN UnitWidget : \A u \in Options(UnitWidget[v]) :
          u \in DOMAIN scale /\ DimensionOf(u) = InputDimension(v)
    /\ out.exc # "KeyError"
    /\ \A v \in DOMAIN UnitWidget :
          Shown(v) =>
              /\ DimensionOf(W(ws, UnitWidget[v])) = InputDimension(v)
              /\ SI(ws, v) = FMul(W(ws, v), scale[W(ws, UnitWidget[v])])

(* A state of C5: a run converted both inputs with units that are not the  *)
(* defaults (25 mW at 250 GHz) and reported the energy.                    *)
C5_Witness ==
    /\ mode = "pulse_energy"
    /\ SI(ws, "pe_P") = Dec(25, -3)
    /\ SI(ws, "pe_f") = Dec(25, 10)
    /\ Reported("E") # {}

(* ---------------- C6 ---------------------------------------------------- *)
(* The exponent as the claim writes it: the multiple of 3 with             *)
(* 10^e <= |x| < 10^(e+3), clamped to [-15, 12]; and the claimed prefixes. *)
ClaimedExponent(x) ==
    LET e == CHOOSE t \in {3 * k : k \in -MaxDecade .. MaxDecade} :
                 Le(Dec(1, t), FAbs(x)) /\ Lt(FAbs(x), Dec(1, t + 3))
    IN  IF e > 12 THEN 12 ELSE IF e < -15 THEN -15 ELSE e

ClaimedPrefix(e) ==
    CASE e = -15 -> "f" [] e = -12 -> "p" [] e = -9 -> "n" [] e = -6 -> "u"
      [] e = -3 -> "m" [] e = 0 -> "" [] e = 3 -> "k" [] e = 6 -> "M"
      [] e = 9 -> "G" [] e = 12 -> "T"

Formatted == call.f = "format_eng"

ClaimedRaw(x) ==
    CASE x = PyInt(0) -> "0" [] x = Zero -> "0.0" [] x = NaN -> "nan"
      [] x = Inf(1) -> "inf" [] x = Inf(-1) -> "-inf"

(* C7: format_eng(0, "W") is "0 W"; for zero, nan and +/-inf format_eng    *)
(* raises nothing and returns the raw value and the unit, with no prefix   *)
(* and no scaling (the logarithm, which would raise, is never reached).    *)
C7_SpecialValuesUnscaled ==
    (Formatted /\ call.x \in {PyInt(0), Zero, NaN, Inf(1), Inf(-1)}) =>
        /\ call.ret.exc = ""
        /\ call.ret = Str(call.x, ClaimedRaw(call.x), "", call.unit)
        /\ (call.x = PyInt(0) /\ call.unit = "W") =>
               (call.ret.text = "0" /\ call.ret.prefix = "" /\ call.ret.unit = "W")

(* A state of C7: format_eng(nan, "W") returned "nan W".                   *)
C7_Witness ==
    /\ Formatted
    /\ call.x = NaN
    /\ call.ret = Str(NaN, "nan", "", "W")

(* ---------------- C8 ---------------------------------------------------- *)
(* The delay of a length difference as the claim writes it.                *)
ClaimedDelay(n, dL, geom) ==
    IF geom = "single" THEN FDiv(FMul(n, dL), Num(299792458))
    ELSE FDiv(FMul(FMul(Two, n), dL), Num(299792458))

(* C8: in the optical delay mode (n >= 1), length -> delay reports         *)
(* n*dL/c (single pass) or 2*n*dL/c (double pass), and delay -> length of  *)
(* that delay, same n and path, gives dL back; likewise delay -> length    *)
(* followed by length -> delay gives dt back; the double-pass delay is     *)
(* twice the single-pass delay and the double-pass length half the         *)
(* single-pass length.                                                     *)
C8_DelayAndLengthAreInverses ==
    mode = "delay" =>
        LET n == W(ws, "od_n") IN
        /\ Le(One, n)
        /\ out.exc = "" /\ Errors(out) = {}
        /\ IF Sub("od_dir") = "L2t"
           THEN LET dL == SI(ws, "od_L")
                    geom == W(ws, "od_geom2")
                IN  /\ \E msg \in Reported("dt") :
                          /\ msg.val = ClaimedDelay(n, dL, geom)
                          /\ DelayToLength(n, msg.val, geom) = dL
                    /\ LengthToDelay(n, dL, "double") =
                           FMul(Two, LengthToDelay(n, dL, "single"))
           ELSE LET dt == SI(ws, "od_t")
                    geom == W(ws, "od_geom1")
                IN  /\ \E msg \in Reported("dL") :
                          /\ ClaimedDelay(n, msg.val, geom) = dt
                          /\ LengthToDelay(n, msg.val, geom) = dt
                    /\ DelayToLength(n, dt, "double") =
                           FDiv(DelayToLength(n, dt, "single"), Two)

(* A state of C8: the specification's example, n = 1 and dL = 0.3 m over a *)
(* double pass, reported as 2.001 ns.                                      *)
C8_Witness ==
    /\ mode = "delay" /\ Sub("od_dir") = "L2t"
    /\ W(ws, "od_n") = One
    /\ SI(ws, "od_L") = Dec(3, -1)
    /\ W(ws, "od_geom2") = "double"
    /\ \E msg \in Reported("dt") :
          /\ msg.val = FDiv(Dec(6, -1), C0)
          /\ msg.shown = Str(Dec(2001, -3), "", "n", "s")

(* ---------------- C9 ---------------------------------------------------- *)
(* C9: there is no cross-mode state: when the mode changes the fields of   *)
(* the previous mode are discarded, so the first run of the new mode       *)
(* shows every input at its default and the result of the defaults, also   *)
(* for the inputs declared alike in two modes.                             *)
C9_NoCrossModeState ==
    [][mode' # mode =>
          /\ \A x \in DOMAIN ws' : ws'[x] = Default(x)
          /\ out' = Script(mode', <<>>)]_vars

(* C9 for the widgets whose declaration occurs in one mode only: a value   *)
(* that survives a change of mode belongs to a widget the previous run     *)
(* showed under the same identity.                                         *)
C9_OnlySharedWidgetsCarryOver ==
    [][mode' # mode =>
          \A x \in DOMAIN ws' :
              ws'[x] # Default(x) => (x \in DOMAIN ws /\ ws'[x] = ws[x])]_vars

(* ---------------- C10 --------------------------------------------------- *)
(* The waist the Rayleigh mode works with, as the claim writes it: the     *)
(* entry, or lambda / (pi * NA).                                           *)
ClaimedWaist ==
    IF Sub("rr_input") = "direct" THEN SI(ws, "rr_w0")
    ELSE FDiv(SI(ws, "rr_lam"), FMul(Pi, W(ws, "rr_NA")))

(* What the focused-spot mode reports as Gaussian waist for the wavelength *)
(* and NA of this state.                                                   *)
SpotOfSameInputs ==
    Script("focused_spot",
           (Id("fs_def") :> "gauss") @@ (Id("fs_lam") :> W(ws, "rr_lam")) @@
           (Id("fs_lamu") :> W(ws, "rr_lamu")) @@ (Id("fs_NA") :> W(ws, "rr_NA")))

(* C10: in the Rayleigh mode a success is reported only when lambda > 0    *)
(* and w0 > 0, and then z_R = pi * w0^2 / lambda and the depth of focus is *)
(* 2 * z_R; with w0 derived from NA, NA <= 0 gives the NA error and        *)
(* nothing else, and for NA > 0 the w0 shown is lambda / (pi * NA), the    *)
(* value and text the focused-spot mode reports for the same lambda and    *)
(* NA.                                                                     *)
C10_RayleighRange ==
    mode = "rayleigh" =>
        LET lam == SI(ws, "rr_lam")
            fromNA == Sub("rr_input") = "fromNA"
            NA == W(ws, "rr_NA")
        IN  /\ out.exc = ""
            /\ Successes(out) # {} =>
                  /\ Gt(lam, Zero) /\ Gt(ClaimedWaist, Zero)
                  /\ Cardinality(Successes(out)) = 2
                  /\ \E z \in Reported("zR"), f \in Reported("DOF") :
                        /\ z.val = FDiv(FMul(Pi, FMul(ClaimedWaist, ClaimedWaist)), lam)
                        /\ f.val = FMul(Two, z.val)
            /\ (Gt(lam, Zero) /\ (~fromNA \/ Gt(NA, Zero)) /\ Gt(ClaimedWaist, Zero)) =>
                  Successes(out) # {}
            /\ (fromNA /\ Le(NA, Zero)) => out.msgs = <<Err("NA")>>
            /\ (fromNA /\ Gt(NA, Zero)) =>
                  /\ out.msgs[1] = Info("w0", ClaimedWaist, format_eng(ClaimedWaist, "m"))
                  /\ \E spot \in {SpotOfSameInputs.msgs[1]} :
                        /\ spot.kind = "success" /\ spot.tag = "w0"
                        /\ spot.val = out.msgs[1].val
                        /\ spot.shown = out.msgs[1].shown

(* A state of C10: w0 derived from NA = 0.5 at 800 nm, shown and used for  *)
(* z_R and the depth of focus.                                             *)
C10_Witness ==
    /\ mode = "rayleigh" /\ Sub("rr_input") = "fromNA"
    /\ SI(ws, "rr_lam") = Dec(8, -7) /\ W(ws, "rr_NA") = Dec(5, -1)
    /\ Len(out.msgs) = 3
    /\ out.msgs[1].val = FDiv(Dec(16, -7), Pi)
    /\ Reported("zR") # {} /\ Reported("DOF") # {}

(* A state of C10: the specification's example, w0 = 5 um at 1030 nm,      *)
(* printed as 76.25 um and 152.5 um.                                       *)
C10_ExampleReached ==
    /\ mode = "rayleigh" /\ Sub("rr_input") = "direct"
    /\ SI(ws, "rr_lam") = Dec(103, -8) /\ SI(ws, "rr_w0") = Dec(5, -6)
    /\ \E z \in Reported("zR"), f \in Reported("DOF") :
          /\ z.shown = Str(Dec(7625, -2), "", "u", "m")
          /\ f.shown = Str(Dec(1525, -1), "", "u", "m")

(* ---------------- C11 --------------------------------------------------- *)
(* Whether the theta_m branch finds an angle for order m on the entries a  *)
(* of the form.                                                            *)
SolvesOrder(m, a) ==
    ~NoRealSolution64(ImpliedSine64(m, to_si64(DInt(a.lam), a.lam_unit),
                                    to_si64(DInt(a.theta_i), a.theta_i_unit),
                                    to_si64(DInt(a.N), a.N_unit)))

Beyond == 3

(* C11: for a wavelength > 0 and a line density > 0 the reported |m|max is *)
(* the largest order the theta_m solver accepts on the same entries: order *)
(* +|m|max or -|m|max has a real solution, and no order above |m|max has   *)
(* one for either sign.                                                    *)
C11_MaxOrderAgreesWithSolver ==
    (call.f = "max_order" /\ ~call.error /\ call.args.lam > 0) =>
        /\ SolvesOrder(call.ret, call.args) \/ SolvesOrder(-call.ret, call.args)
        /\ \A j \in (call.ret + 1)..(call.ret + Beyond) :
              ~SolvesOrder(j, call.args) /\ ~SolvesOrder(-j, call.args)

(* 500 nm on 400 lines/mm at normal incidence: |m|max = 5 is reported and  *)
(* neither order 5 nor order -5 is solved, while order 4 is.               *)
C11_EstimateTooHigh ==
    /\ call.f = "max_order"
    /\ call.args = [lam |-> 500, lam_unit |-> "nm", theta_i |-> 0, theta_i_unit |-> "deg",
                    N |-> 400, N_unit |-> "lines/mm"]
    /\ call.ret = 5
    /\ ~SolvesOrder(5, call.args) /\ ~SolvesOrder(-5, call.args)
    /\ SolvesOrder(4, call.args)

(* 200 nm on 250 lines/mm at 30 deg: |m|max = 29 is reported and order 30  *)
(* is solved.                                                              *)
C11_EstimateTooLow ==
    /\ call.f = "max_order"
    /\ call.args = [lam |-> 200, lam_unit |-> "nm", theta_i |-> 30, theta_i_unit |-> "deg",
                    N |-> 250, N_unit |-> "lines/mm"]
    /\ call.ret = 29
    /\ SolvesOrder(30, call.args)

=============================================================================
